---- MODULE Spec2Model ----
(***************************************************************************)
(* Model of the file-persisted table store (src/src/db.rs) and of the      *)
(* request handlers that use it (src/src/items/route.rs,                   *)
(* src/src/auth/route.rs, src/src/main.rs).                                *)
(*                                                                         *)
(* Option<T> is modelled as a sequence of length 0 (None) or 1 (Some(x)).  *)
(* A serde_json::Value object is modelled as a TLA+ record.                *)
(***************************************************************************)
EXTENDS Integers, Sequences, FiniteSets, TLC

(***************************************************************************)
(* Bounds of the model.                                                    *)
(***************************************************************************)
\* largest id next_id may hand out (the u32 counter is capped in the guard)
MaxId == 2
\* largest record id callers pass to insert_or_update / delete_by_id
MaxKey == 2
\* largest number of flushes that fail with an I/O error in one behaviour
MaxFaults == 1
\* largest number of process crashes in one behaviour
MaxCrashes == 1
\* number of request-handling tasks that run concurrently
MaxTasks == 2

\* table names used by callers: main.rs:46-47, items/route.rs:13, auth/route.rs:10
TableNames == {"item", "user"}
\* record ids callers pass to insert_or_update / delete_by_id / find_by_id:
\* MaxKey of them, one of one digit and the others of two digits (the file
\* stores the keys as decimal strings)
Ids == {2} \cup (10..(MaxKey + 8))
\* record payloads callers pass to insert_or_update: Item (items/model.rs:8-12)
\* and the json!({"id", "value"}) of the db.rs tests; User (auth/model.rs:9-15)
ItemValues == {[id |-> 1, name |-> "item 1"], [id |-> 1, value |-> "updated"]}
UserValues == {[id |-> 1, username |-> "username", password |-> "password",
                permissions |-> <<"MUTATE">>]}
ValuesOf(name) == IF name = "user" THEN UserValues ELSE ItemValues

VARIABLES
    tables,       \* Db.tables: table name -> [next_id, data]
    file,         \* content of the backing file behind Db.file
    proc,         \* "up": a Db value exists; "down": process crashed;
                  \* "failed": Db::init panicked on an unreadable file
    last,         \* the most recent call on the Db and what it returned
    faultBudget,  \* number of flushes the environment may still fail
    crashBudget,  \* number of crashes the environment may still cause
    issued,       \* history: per table name, the ids get_increment_last_id
                  \* returned since add_table last created the table
    issuedBeforeCrash, \* history: per table name, the ids returned before
                  \* a crash of the process
    lostIds,      \* history: per table name, the ids returned before a crash
                  \* after which Db::init found the file empty
    lockHolder,   \* Mutex<Db>: the task holding the guard, 0 when free
    poisoned,     \* Mutex<Db>: a task panicked while holding the guard
    hpc,          \* per task: the handler it runs and the line it is at
    hreq,         \* per task: the request payload
    hid,          \* per task: the local `id` of the handler
    resp,         \* per task: the outcome of its last request
    createLog     \* history: the items create_item answered 201 with

storeVars == <<tables, file, proc, last, faultBudget, crashBudget,
               issued, issuedBeforeCrash, lostIds>>
httpVars == <<lockHolder, poisoned, hpc, hreq, hid, resp, createLog>>
vars == <<tables, file, proc, last, faultBudget, crashBudget,
          issued, issuedBeforeCrash, lostIds,
          lockHolder, poisoned, hpc, hreq, hid, resp, createLog>>

(***************************************************************************)
(* serde_json text form of u32 numbers and of BTreeMap<u32, _> keys.       *)
(***************************************************************************)
Digits == <<"0", "1", "2", "3", "4", "5", "6", "7", "8", "9">>

RECURSIVE U32ToString(_)
U32ToString(n) ==
    IF n < 10 THEN <<Digits[n + 1]>>
    ELSE Append(U32ToString(n \div 10), Digits[(n % 10) + 1])

DigitValue(c) == (CHOOSE i \in 1..10 : Digits[i] = c) - 1

\* a parse that reads one digit only
ParseU32_LastDigit(s) == DigitValue(s[Len(s)])

RECURSIVE ParseU32(_)
ParseU32(s) ==
    IF Len(s) = 0 THEN 0
    ELSE 10 * ParseU32(SubSeq(s, 1, Len(s) - 1)) + DigitValue(s[Len(s)])

(***************************************************************************)
(* serde_json::to_string(&self.tables): a JSON object is a set of          *)
(* <<key, value>> members; data keys are decimal strings.                  *)
(***************************************************************************)
SerializeData(data) == {<<U32ToString(k), data[k]>> : k \in DOMAIN data}

SerializeTable(table) ==
    [next_id |-> U32ToString(table.next_id), data |-> SerializeData(table.data)]

Serialize(tbls) == {<<name, SerializeTable(tbls[name])>> : name \in DOMAIN tbls}

(***************************************************************************)
(* serde_json::from_str::<HashMap<String, TableData>>(&contents).          *)
(***************************************************************************)
DeserializeData(members) ==
    [k \in {ParseU32(m[1]) : m \in members} |->
        (CHOOSE m \in members : ParseU32(m[1]) = k)[2]]

DeserializeTable(obj) ==
    [next_id |-> ParseU32(obj.next_id), data |-> DeserializeData(obj.data)]

Deserialize(doc) ==
    [name \in {m[1] : m \in doc} |->
        DeserializeTable((CHOOSE m \in doc : m[1] = name)[2])]

(***************************************************************************)
(* File contents: zero length, a complete JSON document, or a proper       *)
(* prefix of one (left by an interrupted write_all).                       *)
(***************************************************************************)
EmptyFile == [kind |-> "empty", doc |-> {}]
TornFile == [kind |-> "torn", doc |-> {}]
JsonFile(doc) == [kind |-> "json", doc |-> doc]

EmptyTables == [name \in {} |-> 0]

\* Db::init: the tables a new Db holds after reading file content f
InitTables(f) == IF f.kind = "json" THEN Deserialize(f.doc) ELSE EmptyTables

\* Db::init panics ("Unreadable JSON!") on a non-empty unparseable file
InitPanics(f) == f.kind = "torn"

(***************************************************************************)
(* Db::write / Db::flush: the possible outcomes of flushing tbls.          *)
(* ok: set_len(0), rewind, write_all all succeed.                          *)
(* err: set_len fails (file untouched), write_all fails at once (file      *)
(* empty) or part-way (file holds a prefix).                               *)
(***************************************************************************)
\* a flush that writes the tables as they were before the mutation
FlushOk_BeforeMutation(tbls) ==
    [status |-> "ok", file |-> JsonFile(Serialize(tables))]

FlushOk(tbls) == [status |-> "ok", file |-> JsonFile(Serialize(tbls))]

FlushErr == {[status |-> "err", file |-> f] : f \in {file, EmptyFile, TornFile}}

Flush(tbls) ==
    {FlushOk(tbls)} \cup (IF faultBudget > 0 THEN FlushErr ELSE {})

(***************************************************************************)
(* Read-only operations.                                                   *)
(***************************************************************************)
\* an iteration from the largest key down
RECURSIVE AscendingKeys_Descending(_)
AscendingKeys_Descending(S) ==
    IF S = {} THEN <<>>
    ELSE LET m == CHOOSE x \in S : \A y \in S : x >= y
         IN <<m>> \o AscendingKeys_Descending(S \ {m})

RECURSIVE AscendingKeys(_)
AscendingKeys(S) ==
    IF S = {} THEN <<>>
    ELSE LET m == CHOOSE x \in S : \A y \in S : x <= y
         IN <<m>> \o AscendingKeys(S \ {m})

\* BTreeMap::values(): the values in ascending key order
ValuesInOrder(data) ==
    LET keys == AscendingKeys(DOMAIN data)
    IN [i \in 1..Len(keys) |-> data[keys[i]]]

find_all(tbls, name) ==
    IF name \in DOMAIN tbls THEN <<ValuesInOrder(tbls[name].data)>> ELSE <<>>

find_by_id(tbls, name, id) ==
    IF name \in DOMAIN tbls /\ id \in DOMAIN tbls[name].data
    THEN <<tbls[name].data[id]>>
    ELSE <<>>

(***************************************************************************)
(* Helpers on the tables mapping.                                          *)
(***************************************************************************)
NewTable == [next_id |-> 1, data |-> [k \in {} |-> 0]]

\* an insert that keeps the entry a present key already has
PutTable_KeepExisting(tbls, name, table) ==
    [n \in DOMAIN tbls \cup {name} |-> IF n \in DOMAIN tbls THEN tbls[n] ELSE table]

\* a map that is replaced by one holding the new table only
PutTable_Only(tbls, name, table) == [n \in {name} |-> table]

\* HashMap::insert(table_name, table)
PutTable(tbls, name, table) ==
    [n \in DOMAIN tbls \cup {name} |-> IF n = name THEN table ELSE tbls[n]]

\* an insert that merges the new object into the stored one
PutRecord_Merge(data, id, value) ==
    [k \in DOMAIN data \cup {id} |->
        IF k # id THEN data[k]
        ELSE IF id \in DOMAIN data
             THEN [f \in DOMAIN data[id] \cup DOMAIN value |->
                      IF f \in DOMAIN value THEN value[f] ELSE data[id][f]]
             ELSE value]

\* BTreeMap::insert(id, value)
PutRecord(data, id, value) ==
    [k \in DOMAIN data \cup {id} |-> IF k = id THEN value ELSE data[k]]

\* a lookup in place of the removal: the record stays stored
RemoveRecord_Get(data, id) == data

\* BTreeMap::remove(&id)
RemoveRecord(data, id) == [k \in DOMAIN data \ {id} |-> data[k]]

\* a clear that also resets the id counter
ClearRecords_ResetCounter(table) == [next_id |-> 1, data |-> [k \in {} |-> 0]]

\* table.data.clear()
ClearRecords(table) == [table EXCEPT !.data = [k \in {} |-> 0]]

\* a counter that is not advanced
Incremented_Same(id) == id

\* table.next_id = id + 1
Incremented(id) == id + 1

\* an existence test that never finds the table
AlreadyExists_Never(tbls, name, is_recreate) == FALSE

\* !is_recreate && self.tables.contains_key(&table_name)
AlreadyExists(tbls, name, is_recreate) == ~is_recreate /\ name \in DOMAIN tbls

\* the record of a call: its arguments, whether the table existed when it
\* was made, Ok/Err, the returned value and whether it reached self.flush()
Call(op, name, id, status, ret, flushed) ==
    [op |-> op, name |-> name, id |-> id, existed |-> name \in DOMAIN tables,
     status |-> status, ret |-> ret, flushed |-> flushed]

NoIds == [name \in TableNames |-> {}]

Tasks == 1..MaxTasks
NoRequest == [kind |-> "none"]
NoResponse == [code |-> 0]

\* no request is being handled
HttpIdle ==
    /\ lockHolder = 0
    /\ poisoned = FALSE
    /\ hpc = [t \in Tasks |-> "idle"]
    /\ hreq = [t \in Tasks |-> NoRequest]
    /\ hid = [t \in Tasks |-> 0]
    /\ resp = [t \in Tasks |-> NoResponse]
    /\ createLog = <<>>

(***************************************************************************)
(* Initial state: Db::init on a path that does not exist yet.              *)
(***************************************************************************)
Init ==
    /\ tables = InitTables(EmptyFile)
    /\ file = EmptyFile
    /\ proc = "up"
    /\ last = Call("init", "", 0, "ok", <<>>, FALSE)
    /\ faultBudget = 0
    /\ crashBudget = 0
    /\ issued = NoIds
    /\ issuedBeforeCrash = NoIds
    /\ lostIds = NoIds
    /\ HttpIdle

Faults(status) == IF status = "err" THEN faultBudget - 1 ELSE faultBudget

(***************************************************************************)
(* Db::add_table                                                           *)
(***************************************************************************)
add_table(name, is_recreate) ==
    /\ proc = "up"
    /\ IF AlreadyExists(tables, name, is_recreate)
       THEN /\ last' = Call("add_table", name, 0, "ok", <<is_recreate>>, FALSE)
            /\ UNCHANGED <<tables, file, faultBudget, issued>>
       ELSE \E fl \in Flush(PutTable(tables, name, NewTable)) :
            /\ tables' = PutTable(tables, name, NewTable)
            /\ file' = fl.file
            /\ faultBudget' = Faults(fl.status)
            /\ last' = Call("add_table", name, 0, fl.status, <<is_recreate>>, TRUE)
            /\ issued' = [issued EXCEPT ![name] = {}]
    /\ UNCHANGED <<proc, crashBudget, issuedBeforeCrash, lostIds>>

(***************************************************************************)
(* Db::get_increment_last_id                                               *)
(***************************************************************************)
\* an allocation that returns the counter after the increment
get_increment_last_id_PreIncrement(name) ==
    /\ proc = "up"
    /\ IF name \in DOMAIN tables
       THEN /\ tables[name].next_id <= MaxId
            /\ LET id == Incremented(tables[name].next_id)
                   new == [tables EXCEPT ![name].next_id = id]
               IN \E fl \in Flush(new) :
                  /\ tables' = new
                  /\ file' = fl.file
                  /\ faultBudget' = Faults(fl.status)
                  /\ IF fl.status = "ok"
                     THEN /\ last' = Call("next_id", name, 0, "ok", <<id>>, TRUE)
                          /\ issued' = [issued EXCEPT ![name] = @ \cup {id}]
                     ELSE /\ last' = Call("next_id", name, 0, "err", <<>>, TRUE)
                          /\ UNCHANGED <<issued>>
       ELSE /\ last' = Call("next_id", name, 0, "ok", <<>>, FALSE)
            /\ UNCHANGED <<tables, file, faultBudget, issued>>
    /\ UNCHANGED <<proc, crashBudget, issuedBeforeCrash, lostIds>>

get_increment_last_id(name) ==
    /\ proc = "up"
    /\ IF name \in DOMAIN tables
       THEN /\ tables[name].next_id <= MaxId
            /\ LET id == tables[name].next_id
                   new == [tables EXCEPT ![name].next_id = Incremented(id)]
               IN \E fl \in Flush(new) :
                  /\ tables' = new
                  /\ file' = fl.file
                  /\ faultBudget' = Faults(fl.status)
                  /\ IF fl.status = "ok"
                     THEN /\ last' = Call("next_id", name, 0, "ok", <<id>>, TRUE)
                          /\ issued' = [issued EXCEPT ![name] = @ \cup {id}]
                     ELSE /\ last' = Call("next_id", name, 0, "err", <<>>, TRUE)
                          /\ UNCHANGED <<issued>>
       ELSE /\ last' = Call("next_id", name, 0, "ok", <<>>, FALSE)
            /\ UNCHANGED <<tables, file, faultBudget, issued>>
    /\ UNCHANGED <<proc, crashBudget, issuedBeforeCrash, lostIds>>

(***************************************************************************)
(* Db::insert_or_update                                                    *)
(***************************************************************************)
\* an upsert that creates the table when it is missing
insert_or_update_CreatesTable(name, id, data) ==
    /\ proc = "up"
    /\ LET table == IF name \in DOMAIN tables THEN tables[name] ELSE NewTable
           new == PutTable(tables, name,
                           [table EXCEPT !.data = PutRecord(@, id, data)])
       IN \E fl \in Flush(new) :
          /\ tables' = new
          /\ file' = fl.file
          /\ faultBudget' = Faults(fl.status)
          /\ last' = Call("upsert", name, id, fl.status,
                          IF fl.status = "ok" /\ name \in DOMAIN tables
                          THEN <<data>> ELSE <<>>, TRUE)
    /\ UNCHANGED <<proc, crashBudget, issued, issuedBeforeCrash, lostIds>>

\* an upsert that takes the record back when the flush fails
insert_or_update_RollsBack(name, id, data) ==
    /\ proc = "up"
    /\ IF name \in DOMAIN tables
       THEN LET new == [tables EXCEPT ![name].data = PutRecord(@, id, data)]
            IN \E fl \in Flush(new) :
               /\ tables' = IF fl.status = "ok" THEN new ELSE tables
               /\ file' = fl.file
               /\ faultBudget' = Faults(fl.status)
               /\ last' = Call("upsert", name, id, fl.status,
                               IF fl.status = "ok" THEN <<data>> ELSE <<>>, TRUE)
       ELSE /\ last' = Call("upsert", name, id, "ok", <<>>, FALSE)
            /\ UNCHANGED <<tables, file, faultBudget>>
    /\ UNCHANGED <<proc, crashBudget, issued, issuedBeforeCrash, lostIds>>

insert_or_update(name, id, data) ==
    /\ proc = "up"
    /\ IF name \in DOMAIN tables
       THEN LET new == [tables EXCEPT ![name].data = PutRecord(@, id, data)]
            IN \E fl \in Flush(new) :
               /\ tables' = new
               /\ file' = fl.file
               /\ faultBudget' = Faults(fl.status)
               /\ last' = Call("upsert", name, id, fl.status,
                               IF fl.status = "ok" THEN <<data>> ELSE <<>>, TRUE)
       ELSE /\ last' = Call("upsert", name, id, "ok", <<>>, FALSE)
            /\ UNCHANGED <<tables, file, faultBudget>>
    /\ UNCHANGED <<proc, crashBudget, issued, issuedBeforeCrash, lostIds>>

(***************************************************************************)
(* Db::delete_by_id                                                        *)
(***************************************************************************)
delete_by_id(name, id) ==
    /\ proc = "up"
    /\ IF name \in DOMAIN tables
       THEN LET removed == find_by_id(tables, name, id)
                new == [tables EXCEPT ![name].data = RemoveRecord(@, id)]
            IN \E fl \in Flush(new) :
               /\ tables' = new
               /\ file' = fl.file
               /\ faultBudget' = Faults(fl.status)
               /\ last' = Call("delete_by_id", name, id, fl.status,
                               IF fl.status = "ok" THEN removed ELSE <<>>, TRUE)
       ELSE /\ last' = Call("delete_by_id", name, id, "ok", <<>>, FALSE)
            /\ UNCHANGED <<tables, file, faultBudget>>
    /\ UNCHANGED <<proc, crashBudget, issued, issuedBeforeCrash, lostIds>>

(***************************************************************************)
(* Db::delete_all                                                          *)
(***************************************************************************)
delete_all(name) ==
    /\ proc = "up"
    /\ IF name \in DOMAIN tables
       THEN LET new == [tables EXCEPT ![name] = ClearRecords(@)]
            IN \E fl \in Flush(new) :
               /\ tables' = new
               /\ file' = fl.file
               /\ faultBudget' = Faults(fl.status)
               /\ last' = Call("delete_all", name, 0, fl.status,
                               IF fl.status = "ok" THEN <<TRUE>> ELSE <<>>, TRUE)
       ELSE /\ last' = Call("delete_all", name, 0, "ok", <<FALSE>>, FALSE)
            /\ UNCHANGED <<tables, file, faultBudget>>
    /\ UNCHANGED <<proc, crashBudget, issued, issuedBeforeCrash, lostIds>>

(***************************************************************************)
(* The process dies between two calls on the Db: memory is lost, the file  *)
(* keeps what the last write left.                                         *)
(***************************************************************************)
Crash ==
    /\ proc = "up"
    /\ crashBudget > 0
    /\ proc' = "down"
    /\ crashBudget' = crashBudget - 1
    /\ tables' = EmptyTables
    /\ last' = Call("crash", "", 0, "ok", <<>>, FALSE)
    /\ issuedBeforeCrash' =
           [name \in TableNames |-> issuedBeforeCrash[name] \cup issued[name]]
    /\ UNCHANGED <<file, faultBudget, issued, lostIds>>
    /\ UNCHANGED httpVars

(***************************************************************************)
(* The process dies inside Db::write of a mutating call: after set_len(0)  *)
(* the file is empty, during write_all it holds a prefix of the document.  *)
(* No result is returned to any caller.                                    *)
(***************************************************************************)
CrashInWrite ==
    /\ proc = "up"
    /\ crashBudget > 0
    /\ proc' = "down"
    /\ crashBudget' = crashBudget - 1
    /\ tables' = EmptyTables
    /\ file' \in {EmptyFile, TornFile}
    /\ last' = Call("crash", "", 0, "ok", <<>>, TRUE)
    /\ issuedBeforeCrash' =
           [name \in TableNames |-> issuedBeforeCrash[name] \cup issued[name]]
    /\ UNCHANGED <<faultBudget, issued, lostIds>>
    /\ UNCHANGED httpVars

(***************************************************************************)
(* Db::init at the next start of the process (main.rs:45).                 *)
(***************************************************************************)
Restart ==
    /\ proc = "down"
    /\ IF InitPanics(file)
       THEN /\ proc' = "failed"
            /\ last' = Call("init", "", 0, "panic", <<>>, FALSE)
            /\ UNCHANGED tables
       ELSE /\ proc' = "up"
            /\ tables' = InitTables(file)
            /\ last' = Call("init", "", 0, "ok", <<>>, FALSE)
    /\ lostIds' = IF file.kind = "empty" THEN issuedBeforeCrash ELSE lostIds
    /\ UNCHANGED <<file, faultBudget, crashBudget, issued, issuedBeforeCrash>>
    /\ UNCHANGED httpVars

(***************************************************************************)
(* The store used through its API by one caller; every flush succeeds.     *)
(***************************************************************************)
AddTable ==
    /\ \E name \in TableNames, is_recreate \in BOOLEAN :
           add_table(name, is_recreate)
    /\ UNCHANGED httpVars

NextId ==
    /\ \E name \in TableNames : get_increment_last_id(name)
    /\ UNCHANGED httpVars

Upsert ==
    /\ \E name \in TableNames, id \in Ids :
           \E data \in ValuesOf(name) : insert_or_update(name, id, data)
    /\ UNCHANGED httpVars

DeleteById ==
    /\ \E name \in TableNames, id \in Ids : delete_by_id(name, id)
    /\ UNCHANGED httpVars

DeleteAll ==
    /\ \E name \in TableNames : delete_all(name)
    /\ UNCHANGED httpVars

Next == AddTable \/ NextId \/ Upsert \/ DeleteById \/ DeleteAll

Spec == Init /\ [][Next]_vars

(***************************************************************************)
(* The same API where up to MaxFaults flushes fail with an I/O error.      *)
(* Callers use one record id and one payload per table.                    *)
(***************************************************************************)
FaultId == CHOOSE id \in Ids : \A other \in Ids : id <= other
FaultValue(name) == CHOOSE data \in ValuesOf(name) : TRUE

InitFault ==
    /\ tables = InitTables(EmptyFile)
    /\ file = EmptyFile
    /\ proc = "up"
    /\ last = Call("init", "", 0, "ok", <<>>, FALSE)
    /\ faultBudget = MaxFaults
    /\ crashBudget = 0
    /\ issued = NoIds
    /\ issuedBeforeCrash = NoIds
    /\ lostIds = NoIds
    /\ HttpIdle

FaultUpsert ==
    /\ \E name \in TableNames :
           insert_or_update(name, FaultId, FaultValue(name))
    /\ UNCHANGED httpVars

FaultDeleteById ==
    /\ \E name \in TableNames : delete_by_id(name, FaultId)
    /\ UNCHANGED httpVars

NextFault == AddTable \/ NextId \/ FaultUpsert \/ FaultDeleteById \/ DeleteAll

SpecFault == InitFault /\ [][NextFault]_vars

(***************************************************************************)
(* The process of main.rs: tables are only created with                    *)
(* add_table(name, false); the process may crash, also inside a write,     *)
(* and be started again. Every flush that is not cut short succeeds.       *)
(***************************************************************************)
InitCrash ==
    /\ tables = InitTables(EmptyFile)
    /\ file = EmptyFile
    /\ proc = "up"
    /\ last = Call("init", "", 0, "ok", <<>>, FALSE)
    /\ faultBudget = 0
    /\ crashBudget = MaxCrashes
    /\ issued = NoIds
    /\ issuedBeforeCrash = NoIds
    /\ lostIds = NoIds
    /\ HttpIdle

StartupAddTable ==
    /\ \E name \in TableNames : add_table(name, FALSE)
    /\ UNCHANGED httpVars

NextCrash ==
    \/ StartupAddTable \/ NextId \/ FaultUpsert \/ FaultDeleteById \/ DeleteAll
    \/ Crash \/ CrashInWrite \/ Restart

SpecCrash == InitCrash /\ [][NextCrash]_vars

(***************************************************************************)
(* The HTTP handlers. Every handler takes the guard of the Mutex<Db> at its *)
(* first line and holds it until it returns or panics; a panic while the   *)
(* guard is held poisons the mutex, and lock() then fails in every handler. *)
(***************************************************************************)
ITEM_TABLE_NAME == "item"
USER_TABLE_NAME == "user"

\* request payloads: ItemCreateBody.name and UserFormBody
ItemNames == {"item 1"}
Usernames == {"username", "other"}
Passwords == {"password"}

\* Item::new(id, name)
NewItem(id, name) == [id |-> id, name |-> name]

\* User::new(id, username, password, vec!["MUTATE"])
NewUser(id, username, password) ==
    [id |-> id, username |-> username, password |-> password,
     permissions |-> <<"MUTATE">>]

\* Db::find_by_value: the records of the table whose top-level field equals
\* value, in ascending id order; None when the table does not exist
find_by_value(tbls, name, field, value) ==
    IF name \in DOMAIN tbls
    THEN <<SelectSeq(ValuesInOrder(tbls[name].data),
                     LAMBDA r : field \in DOMAIN r /\ r[field] = value)>>
    ELSE <<>>

Response(code, data) == [outcome |-> "response", code |-> code, data |-> data]
Panicked == [outcome |-> "panic", code |-> 0, data |-> <<>>]

\* a guard that is handed out while another task holds it
LockFree_NotExclusive == TRUE

\* Mutex::lock blocks until no task holds the guard
LockFree == lockHolder = 0

\* a check that lets every username through
UserExists_Never(users) == FALSE

\* users.len() > 0
UserExists(users) == Len(users) > 0

\* the table's counter has room for one more id within the model's bound
CounterInBound(name) ==
    name \in DOMAIN tables => tables[name].next_id <= MaxId

\* db.lock().or_else(|_| Err(INTERNAL_SERVER_ERROR))? at the first line of a
\* handler: the task goes on with the guard, or answers 500 on a poisoned mutex
Lock(t, request, label) ==
    /\ proc = "up"
    /\ hpc[t] = "idle"
    /\ LockFree
    /\ IF poisoned
       THEN /\ resp' = [resp EXCEPT ![t] = Response(500, <<>>)]
            /\ UNCHANGED <<lockHolder, hpc, hreq>>
       ELSE /\ lockHolder' = t
            /\ hpc' = [hpc EXCEPT ![t] = label]
            /\ hreq' = [hreq EXCEPT ![t] = request]
            /\ UNCHANGED resp
    /\ UNCHANGED <<poisoned, hid, createLog>>
    /\ UNCHANGED storeVars

\* the handler returns: the guard is dropped
Return(t, response) ==
    /\ lockHolder' = 0
    /\ hpc' = [hpc EXCEPT ![t] = "idle"]
    /\ hid' = [hid EXCEPT ![t] = 0]
    /\ resp' = [resp EXCEPT ![t] = response]
    /\ UNCHANGED <<poisoned, hreq>>

\* unwrap() on Err or None: the guard is dropped by a panicking task
Panic(t) ==
    /\ lockHolder' = 0
    /\ poisoned' = TRUE
    /\ hpc' = [hpc EXCEPT ![t] = "idle"]
    /\ hid' = [hid EXCEPT ![t] = 0]
    /\ resp' = [resp EXCEPT ![t] = Panicked]
    /\ UNCHANGED hreq

\* get_increment_last_id(name).unwrap().unwrap() in a handler
AllocateId(t, name, label) ==
    /\ get_increment_last_id(name)
    /\ IF last'.status = "ok" /\ Len(last'.ret) = 1
       THEN /\ hid' = [hid EXCEPT ![t] = last'.ret[1]]
            /\ hpc' = [hpc EXCEPT ![t] = label]
            /\ UNCHANGED <<lockHolder, poisoned, hreq, resp>>
       ELSE Panic(t)

(***************************************************************************)
(* create_item (items/route.rs:40-56)                                      *)
(***************************************************************************)
CreateItemLock(t) ==
    /\ CounterInBound(ITEM_TABLE_NAME)
    /\ \E name \in ItemNames :
           Lock(t, [kind |-> "create_item", name |-> name], "create_item_43")

CreateItemNextId(t) ==
    /\ hpc[t] = "create_item_43"
    /\ AllocateId(t, ITEM_TABLE_NAME, "create_item_45")
    /\ UNCHANGED createLog

CreateItemInsert(t) ==
    /\ hpc[t] = "create_item_45"
    /\ LET to_insert == NewItem(hid[t], hreq[t].name)
       IN /\ insert_or_update(ITEM_TABLE_NAME, hid[t], to_insert)
          /\ IF last'.status = "ok" /\ Len(last'.ret) = 1
             THEN /\ Return(t, Response(201, last'.ret))
                  /\ createLog' = Append(createLog, [task |-> t, item |-> to_insert])
             ELSE /\ Panic(t)
                  /\ UNCHANGED createLog

(***************************************************************************)
(* register (auth/route.rs:39-68)                                          *)
(***************************************************************************)
RegisterLock(t) ==
    \E username \in Usernames, password \in Passwords :
        /\ \/ CounterInBound(USER_TABLE_NAME)
           \/ find_by_value(tables, USER_TABLE_NAME, "username", username)
                  \notin {<<>>, << <<>> >>}
        /\ Lock(t, [kind |-> "register", username |-> username,
                    password |-> password], "register_42")

RegisterFind(t) ==
    /\ hpc[t] = "register_42"
    /\ LET users == find_by_value(tables, USER_TABLE_NAME, "username",
                                  hreq[t].username)
       IN IF users = <<>>
          THEN Return(t, Response(401, <<>>))
          ELSE IF UserExists(users[1])
          THEN Return(t, Response(400, <<>>))
          ELSE /\ hpc' = [hpc EXCEPT ![t] = "register_55"]
               /\ UNCHANGED <<lockHolder, poisoned, hreq, hid, resp>>
    /\ UNCHANGED createLog
    /\ UNCHANGED storeVars

RegisterNextId(t) ==
    /\ hpc[t] = "register_55"
    /\ AllocateId(t, USER_TABLE_NAME, "register_58")
    /\ UNCHANGED createLog

RegisterInsert(t) ==
    /\ hpc[t] = "register_58"
    /\ insert_or_update(USER_TABLE_NAME, hid[t],
                        NewUser(hid[t], hreq[t].username, hreq[t].password))
    /\ IF last'.status = "ok" /\ Len(last'.ret) = 1
       THEN Return(t, Response(201, <<>>))
       ELSE Panic(t)
    /\ UNCHANGED createLog

(***************************************************************************)
(* The server after main.rs:45-48 ran on a new file: both tables exist and *)
(* are empty. MaxTasks tasks handle create_item and register requests.     *)
(***************************************************************************)
InitHttp ==
    /\ tables = [name \in TableNames |-> NewTable]
    /\ file = FlushOk([name \in TableNames |-> NewTable]).file
    /\ proc = "up"
    /\ last = [op |-> "add_table", name |-> USER_TABLE_NAME, id |-> 0,
               existed |-> FALSE, status |-> "ok", ret |-> <<FALSE>>,
               flushed |-> TRUE]
    /\ faultBudget = MaxFaults
    /\ crashBudget = 0
    /\ issued = NoIds
    /\ issuedBeforeCrash = NoIds
    /\ lostIds = NoIds
    /\ HttpIdle

CreateItem ==
    \E t \in Tasks : CreateItemLock(t) \/ CreateItemNextId(t) \/ CreateItemInsert(t)

Register ==
    \E t \in Tasks :
        RegisterLock(t) \/ RegisterFind(t) \/ RegisterNextId(t) \/ RegisterInsert(t)

NextHttp == CreateItem \/ Register

SpecHttp == InitHttp /\ [][NextHttp]_vars

(***************************************************************************)
(* Properties of the store.                                                *)
(***************************************************************************)
\* the step is a get_increment_last_id(name) call that returned Some(id)
ReturnedId(name) ==
    /\ last'.op = "next_id"
    /\ last'.name = name
    /\ last'.status = "ok"
    /\ Len(last'.ret) = 1

\* C1: the values successive next_id calls return for a table are strictly
\* increasing, whatever upsert, delete_by_id and delete_all calls come in
\* between: each returned value is greater than every value returned before
\* for the table (`issued` starts anew only when add_table creates the table
\* again, which is not among the calls of this claim).
C1_NextIdStrictlyIncreasing ==
    [][\A name \in TableNames :
          ReturnedId(name) => \A v \in issued[name] : last'.ret[1] > v]_vars

\* next_id returned 2 after 1, and the table holds no record (any record
\* stored in between was deleted)
C1_Witness ==
    /\ last.op = "next_id"
    /\ last.ret = <<2>>
    /\ 1 \in issued[last.name]
    /\ DOMAIN tables[last.name].data = {}

\* C2 as stated: no step, add_table with recreate = true included, leaves a
\* table's nextId at or below an id that next_id has returned for that name.
C2_Original ==
    [][\A name \in DOMAIN tables' :
          \A v \in issued[name] \cup issued'[name] : tables'[name].next_id > v]_vars

\* C2 amended: in every reachable state each table's nextId is strictly
\* greater than every id next_id has returned for it since add_table last
\* created or recreated the table.
C2_NextIdAboveIssuedSinceCreation ==
    \A name \in DOMAIN tables :
        \A v \in issued[name] : tables[name].next_id > v

\* two ids were issued, the records were deleted, nextId is still 3
C2_Witness ==
    /\ last.op = "delete_all"
    /\ last.ret = <<TRUE>>
    /\ issued[last.name] = {1, 2}
    /\ tables[last.name].next_id = 3

\* the step is a mutating call that returned success: add_table that created
\* or recreated the table, or next_id, upsert, delete_by_id, delete_all on an
\* existing table
MutationSucceeded ==
    /\ last'.status = "ok"
    /\ \/ /\ last'.op = "add_table"
          /\ last'.ret = <<TRUE>> \/ ~last'.existed
       \/ /\ last'.op \in {"next_id", "upsert", "delete_by_id", "delete_all"}
          /\ last'.existed

\* C3: when a mutating call returns success the whole content of the backing
\* file is the serialization of the complete in-memory tables mapping as it is
\* at that moment.
C3_FileIsSnapshotAfterSuccess ==
    [][MutationSucceeded => file' = JsonFile(Serialize(tables'))]_vars

\* an upsert succeeded after an earlier flush had failed; both tables exist
C3_Witness ==
    /\ last.op = "upsert"
    /\ last.status = "ok"
    /\ faultBudget < MaxFaults
    /\ DOMAIN tables = TableNames
    /\ file = JsonFile(Serialize(tables))

\* C4 as stated: after a crash at any point and a restart, next_id returns
\* only values greater than every id returned for the table before the crash.
C4_Original ==
    [][\A name \in TableNames :
          ReturnedId(name) =>
              \A v \in issuedBeforeCrash[name] : last'.ret[1] > v]_vars

\* C4 amended: the same, for the crashes after which Db::init finds the file
\* not empty: ids returned before a crash that left the file empty (the crash
\* hit Db::write between set_len(0) and write_all) are issued again.
C4_NoReuseAfterCrashUnlessFileEmptied ==
    [][\A name \in TableNames :
          ReturnedId(name) =>
              \A v \in issuedBeforeCrash[name] \ lostIds[name] :
                  last'.ret[1] > v]_vars

\* id 1 was returned, the process crashed and restarted from a complete file,
\* and next_id returned 2
C4_Witness ==
    /\ last.op = "next_id"
    /\ last.ret = <<2>>
    /\ 1 \in issuedBeforeCrash[last.name]
    /\ lostIds[last.name] = {}
    /\ crashBudget < MaxCrashes

\* C5: flushing the store and initializing a new store from the file gives
\* the same tables, the same nextId per table and the same find_all and
\* find_by_id results.
C5_RoundTrip ==
    LET written == FlushOk(tables).file
        reread == InitTables(written)
    IN /\ ~InitPanics(written)
       /\ DOMAIN reread = DOMAIN tables
       /\ \A name \in TableNames :
             /\ name \in DOMAIN tables =>
                    reread[name].next_id = tables[name].next_id
             /\ find_all(reread, name) = find_all(tables, name)
             /\ \A id \in Ids \cup (1..MaxId) :
                    find_by_id(reread, name, id) = find_by_id(tables, name, id)

\* both tables exist, ids were issued, and the item table holds records
\* under a one-digit and a two-digit key
C5_Witness ==
    /\ DOMAIN tables = TableNames
    /\ tables["item"].next_id = 3
    /\ DOMAIN tables["item"].data = {2, 10}
    /\ tables["item"].data[2] # tables["item"].data[10]
    /\ DOMAIN tables["user"].data = {10}

\* C8: after a successful upsert of a value at (table, id), find_by_id returns
\* exactly that value, and it keeps returning it until the next upsert or
\* delete of that id, delete_all or re-creation of the table.
C8_LastWriteWins ==
    [][\A name \in TableNames, id \in Ids :
          IF last'.op = "upsert" /\ last'.name = name /\ last'.id = id
             /\ last'.existed /\ last'.status = "ok"
          THEN find_by_id(tables', name, id) = last'.ret
          ELSE \/ /\ last'.name = name
                  /\ last'.op = "add_table"
                  /\ last'.ret = <<TRUE>> \/ ~last'.existed
               \/ last'.name = name /\ last'.op = "delete_all"
               \/ last'.name = name /\ last'.id = id /\ last'.op = "delete_by_id"
               \/ find_by_id(tables', name, id) = find_by_id(tables, name, id)]_vars

\* an upsert of the {id, value} object was the last call, and the record it
\* wrote has no field of the {id, name} object
C8_Witness ==
    /\ last.op = "upsert"
    /\ last.existed
    /\ last.ret = <<[id |-> 1, value |-> "updated"]>>
    /\ find_by_id(tables, last.name, last.id) = <<[id |-> 1, value |-> "updated"]>>
    /\ \E id \in Ids : find_by_id(tables, last.name, id) = <<[id |-> 1, name |-> "item 1"]>>

\* C9: after add_table(name, true) returns success the table exists with
\* nextId = 1 and no records: find_all returns Some(empty) and no id is found.
C9_RecreateGivesEmptyTable ==
    (last.op = "add_table" /\ last.ret = <<TRUE>> /\ last.status = "ok") =>
        /\ last.name \in DOMAIN tables
        /\ tables[last.name].next_id = 1
        /\ find_all(tables, last.name) = << <<>> >>
        /\ \A id \in Ids : find_by_id(tables, last.name, id) = <<>>

\* add_table(name, true) was called on a table that existed; the other table
\* keeps its records
C9_Witness ==
    /\ last.op = "add_table"
    /\ last.ret = <<TRUE>>
    /\ last.existed
    /\ \E other \in DOMAIN tables : tables[other].data # NewTable.data

\* C10: add_table(name, false) on an existing table returns success, leaves
\* every table's records and nextId as they were and does not write the file.
C10_AddExistingTableIsNoop ==
    [][(last'.op = "add_table" /\ last'.ret = <<FALSE>> /\ last'.existed) =>
          /\ last'.status = "ok"
          /\ ~last'.flushed
          /\ tables' = tables
          /\ file' = file]_vars

\* add_table(name, false) was called on a table holding a record while the
\* file, after a failed flush, was not the snapshot of the tables
C10_Witness ==
    /\ last.op = "add_table"
    /\ last.ret = <<FALSE>>
    /\ last.existed
    /\ tables[last.name].data # NewTable.data
    /\ file # JsonFile(Serialize(tables))

(***************************************************************************)
(* Properties of the handlers.                                             *)
(***************************************************************************)
\* C6: concurrent create_item handlers get distinct ids, and every item a
\* create_item answered with stays stored under its own id: no two answered
\* creates share an id, no running create holds the id of an answered one,
\* and find_by_id returns the created item.
C6_CreatesGetDistinctIds ==
    /\ \A i, j \in 1..Len(createLog) :
           i # j => createLog[i].item.id # createLog[j].item.id
    /\ \A i \in 1..Len(createLog) :
           /\ find_by_id(tables, ITEM_TABLE_NAME, createLog[i].item.id)
                  = <<createLog[i].item>>
           /\ \A t \in Tasks : hid[t] # createLog[i].item.id
                                   \/ hreq[t].kind # "create_item"

\* two tasks each created an item, and both items are stored
C6_Witness ==
    /\ Len(createLog) = 2
    /\ createLog[1].task # createLog[2].task
    /\ DOMAIN tables[ITEM_TABLE_NAME].data = {1, 2}

\* no two records of the user table have the same username
UniqueUsernames ==
    \A a, b \in DOMAIN tables[USER_TABLE_NAME].data :
        a # b => tables[USER_TABLE_NAME].data[a].username
                     # tables[USER_TABLE_NAME].data[b].username

\* task t leaves line 42 of register with a username that is already stored
RegisterOfStoredUsername(t) ==
    /\ hpc[t] = "register_42"
    /\ hpc'[t] # "register_42"
    /\ \E id \in DOMAIN tables[USER_TABLE_NAME].data :
           tables[USER_TABLE_NAME].data[id].username = hreq[t].username

\* C7: under any interleaving of register handlers the user table never
\* holds two records with the same username, and a register call for a
\* username already present changes no store state and allocates no id: it
\* ends at once with the 400 answer.
C7_RegisterKeepsUsernamesUnique ==
    /\ []UniqueUsernames
    /\ [][\A t \in Tasks :
             RegisterOfStoredUsername(t) =>
                 /\ UNCHANGED storeVars
                 /\ hpc'[t] = "idle"
                 /\ resp'[t] = Response(400, <<>>)]_vars

\* one task registered a user, another task's register call for a stored
\* username was answered 400, and two users are stored
C7_Witness ==
    /\ Cardinality(DOMAIN tables[USER_TABLE_NAME].data) = 2
    /\ \E t, u \in Tasks :
           /\ t # u
           /\ resp[t] = Response(400, <<>>)
           /\ hreq[t].kind = "register"
           /\ resp[u] = Response(201, <<>>)
           /\ hreq[u].kind = "register"

(***************************************************************************)
(* Further properties of the store.                                        *)
(***************************************************************************)
\* C11: delete_all on an existing table returns true, leaves the table with
\* no record (find_all returns the empty sequence) and leaves its nextId as
\* it was, so the next next_id call returns what it would have returned
\* before; on a missing table it returns false and changes nothing.
C11_DeleteAllKeepsCounter ==
    [][last'.op = "delete_all" =>
          IF last'.name \in DOMAIN tables
          THEN /\ last'.ret = <<TRUE>>
               /\ find_all(tables', last'.name) = << <<>> >>
               /\ tables'[last'.name].next_id = tables[last'.name].next_id
          ELSE /\ last'.ret = <<FALSE>>
               /\ tables' = tables]_vars

\* delete_all returned true on a table that had issued id 1; the table is
\* empty and its nextId is still 2
C11_Witness ==
    /\ last.op = "delete_all"
    /\ last.ret = <<TRUE>>
    /\ issued[last.name] = {1}
    /\ tables[last.name].next_id = 2
    /\ find_all(tables, last.name) = << <<>> >>

\* C12: delete_by_id on an existing table returns the value stored at id, or
\* absence when none is stored; afterwards find_by_id(table, id) is absent,
\* and every other record of the table is as it was.
C12_DeleteByIdRemovesOneRecord ==
    [][(last'.op = "delete_by_id" /\ last'.existed) =>
          /\ last'.ret = find_by_id(tables, last'.name, last'.id)
          /\ find_by_id(tables', last'.name, last'.id) = <<>>
          /\ DOMAIN tables'[last'.name].data
                 = DOMAIN tables[last'.name].data \ {last'.id}
          /\ \A other \in DOMAIN tables'[last'.name].data :
                 tables'[last'.name].data[other] = tables[last'.name].data[other]
          /\ tables'[last'.name].next_id = tables[last'.name].next_id]_vars

\* delete_by_id returned the stored record, the id is no longer found and
\* the table still holds another record
C12_Witness ==
    /\ last.op = "delete_by_id"
    /\ Len(last.ret) = 1
    /\ find_by_id(tables, last.name, last.id) = <<>>
    /\ DOMAIN tables[last.name].data # {}

\* what delete_by_id returns when the table does not exist: Ok(None)
DeleteTableNotFound == [status |-> "ok", ret |-> <<>>]

\* C13: the result of delete_by_id tells a missing table from an absent
\* record: the outcome returned for a missing table is returned only when the
\* table does not exist, so a call on an existing table never returns it.
C13_DeleteByIdTellsMissingTableFromAbsentRecord ==
    [][(last'.op = "delete_by_id" /\ last'.existed) =>
          [status |-> last'.status, ret |-> last'.ret] # DeleteTableNotFound]_vars

\* C14: when the named table does not exist, next_id and upsert return
\* Ok(None), leave the tables mapping as it was (no table is created, no
\* counter moves, no record is stored) and do not write the backing file.
C14_MissingTableIsLeftAlone ==
    [][(last'.op \in {"next_id", "upsert"} /\ ~last'.existed) =>
          /\ last'.status = "ok"
          /\ last'.ret = <<>>
          /\ ~last'.flushed
          /\ tables' = tables
          /\ file' = file]_vars

\* upsert was called on a missing table while the other table existed and
\* the file, after a failed flush, was not the snapshot of the tables
C14_Witness ==
    /\ last.op = "upsert"
    /\ ~last.existed
    /\ last.name \notin DOMAIN tables
    /\ DOMAIN tables # {}
    /\ file # JsonFile(Serialize(tables))

\* the step is a mutating call whose flush failed, and the tables hold the
\* mutation the call made before it flushed
FailedCallKeptItsMutation ==
    /\ last'.flushed
    /\ last'.name \in DOMAIN tables'
    /\ CASE last'.op = "add_table" -> tables'[last'.name] = NewTable
         [] last'.op = "next_id" ->
                tables'[last'.name].next_id = tables[last'.name].next_id + 1
         [] last'.op = "upsert" ->
                find_by_id(tables', last'.name, last'.id)
                    = <<FaultValue(last'.name)>>
         [] last'.op = "delete_by_id" ->
                find_by_id(tables', last'.name, last'.id) = <<>>
         [] last'.op = "delete_all" ->
                find_all(tables', last'.name) = << <<>> >>
         [] OTHER -> FALSE

\* C15: a mutating call whose flush fails returns an error and keeps its
\* in-memory mutation (the file holds the old content, nothing or a prefix,
\* so memory and disk may disagree); the next mutating call whose flush
\* succeeds leaves the file equal to the serialization of the whole in-memory
\* state, the earlier mutation included.
C15_FailedFlushKeepsMutation ==
    [][/\ last'.status = "err" =>
              /\ FailedCallKeptItsMutation
              /\ file' \in {file, EmptyFile, TornFile}
       /\ (MutationSucceeded /\ faultBudget < MaxFaults) =>
              /\ file' = JsonFile(Serialize(tables'))
              /\ InitTables(file') = tables']_vars

\* an upsert returned an error: the record is in memory and the file is not
\* the snapshot of the tables
C15_Witness ==
    /\ last.op = "upsert"
    /\ last.status = "err"
    /\ find_by_id(tables, last.name, last.id) = <<FaultValue(last.name)>>
    /\ file # JsonFile(Serialize(tables))
    /\ file.kind = "json"

\* the position of key k among the keys of data, counted from 1 in
\* ascending order
Rank(data, k) == Cardinality({j \in DOMAIN data : j <= k})

\* C16: find_all returns None exactly when the table does not exist; for an
\* existing table it returns every stored record exactly once, in ascending
\* id order whatever the order of the upserts, and the empty sequence when the
\* table holds no record.
C16_FindAllAscending ==
    \A name \in TableNames :
        /\ find_all(tables, name) = <<>> <=> name \notin DOMAIN tables
        /\ name \in DOMAIN tables =>
               LET data == tables[name].data
                   found == find_all(tables, name)[1]
               IN /\ Len(found) = Cardinality(DOMAIN data)
                  /\ \A k \in DOMAIN data : found[Rank(data, k)] = data[k]

\* the record of the smaller id was upserted after the record of the larger
\* id, the two differ, and find_all lists the smaller id first
C16_Witness ==
    /\ last.op = "upsert"
    /\ last.id = 2
    /\ last.name \in DOMAIN tables
    /\ DOMAIN tables[last.name].data = {2, 10}
    /\ tables[last.name].data[2] # tables[last.name].data[10]
    /\ find_all(tables, last.name)
           = << <<tables[last.name].data[2], tables[last.name].data[10]>> >>
    /\ \E other \in TableNames : find_all(tables, other) = <<>>

\* C19: a call that names table T (add_table, next_id, upsert, delete_by_id,
\* delete_all) leaves the nextId and the records of every other table as
\* they were, and no call removes a table: a table that exists before a
\* step exists after it.
C19_OtherTablesUntouched ==
    [][\A name \in DOMAIN tables :
          /\ name \in DOMAIN tables'
          /\ name # last'.name => tables'[name] = tables[name]]_vars

\* the item table was created or recreated while the user table held a
\* record and had issued an id
C19_Witness ==
    /\ last.op = "add_table"
    /\ last.name = "item"
    /\ last.flushed
    /\ "user" \in DOMAIN tables
    /\ tables["user"].next_id = 2
    /\ DOMAIN tables["user"].data # {}
    /\ tables["item"] = NewTable

(***************************************************************************)
(* Db::find_by_value applied to a store read from a file whose user table  *)
(* holds any mix of records: users, objects without a username field and   *)
(* values that are not objects.                                            *)
(***************************************************************************)
\* record ids of the stored records
FindIds == 1..(MaxKey + 1)

\* an empty JSON array: a value that is not an object and has no field
EmptyArray == <<>>

\* stored values: two users of the same username, a user of another
\* username, an Item (no username field) and a value that is not an object
FindRecords ==
    {NewUser(1, "username", "password"), NewUser(2, "username", "password"),
     NewUser(3, "other", "password"), NewItem(1, "username"), EmptyArray}

\* field names and field values callers search for
FindFields == {"username", "name"}
FindFieldValues == Usernames

InitFind ==
    /\ \E keys \in SUBSET FindIds : \E data \in [keys -> FindRecords] :
           tables = [name \in {USER_TABLE_NAME} |->
                        [next_id |-> MaxKey + 2, data |-> data]]
    /\ file = JsonFile(Serialize(tables))
    /\ proc = "up"
    /\ last = Call("init", "", 0, "ok", <<>>, FALSE)
    /\ faultBudget = 0
    /\ crashBudget = 0
    /\ issued = NoIds
    /\ issuedBeforeCrash = NoIds
    /\ lostIds = NoIds
    /\ HttpIdle

FindByValue ==
    /\ proc = "up"
    /\ \E name \in TableNames, field \in FindFields, value \in FindFieldValues :
           last' = Call("find_by_value", name, 0, "ok",
                        <<field, value,
                          find_by_value(tables, name, field, value)>>, FALSE)
    /\ UNCHANGED <<tables, file, proc, faultBudget, crashBudget,
                   issued, issuedBeforeCrash, lostIds>>
    /\ UNCHANGED httpVars

NextFind == FindByValue

SpecFind == InitFind /\ [][NextFind]_vars

\* the ids of the records of data that have the field and hold value in it
MatchingIds(data, field, value) ==
    {k \in DOMAIN data : field \in DOMAIN data[k] /\ data[k][field] = value}

\* C17: find_by_value on an existing table returns exactly the records that
\* have the top-level field equal to the value, each once, in ascending id
\* order (the empty sequence when none matches); records without the field
\* and values that are not objects are left out; the result is None exactly
\* when the table does not exist.
C17_FindByValueExactMatches ==
    (last.op = "find_by_value") =>
        LET field == last.ret[1]
            value == last.ret[2]
            result == last.ret[3]
        IN /\ result = <<>> <=> last.name \notin DOMAIN tables
           /\ last.name \in DOMAIN tables =>
                  LET data == tables[last.name].data
                      ids == MatchingIds(data, field, value)
                  IN /\ Len(result[1]) = Cardinality(ids)
                     /\ \A k \in ids :
                            result[1][Cardinality({j \in ids : j <= k})] = data[k]

\* the search found two different users of the same username, the one of the
\* smaller id first, in a table that also holds a record without the field
\* or a value that is not an object
C17_Witness ==
    /\ last.op = "find_by_value"
    /\ last.ret[1] = "username"
    /\ Len(last.ret[3]) = 1
    /\ last.ret[3][1] = <<NewUser(2, "username", "password"),
                          NewUser(1, "username", "password")>>
    /\ \E k \in DOMAIN tables[last.name].data :
           "username" \notin DOMAIN tables[last.name].data[k]

(***************************************************************************)
(* Items created one after the other, as the tests of items/route.rs do:   *)
(* the owner of the Db opens ./data.json, which is new or was left by an   *)
(* earlier run, calls add_table("item", false), delete_all and             *)
(* delete_by_id, and create_item requests are served. Every flush          *)
(* succeeds.                                                               *)
(***************************************************************************)
\* the tables an earlier run of test_create_item leaves in ./data.json: one
\* item was created under id 1
TablesOfEarlierRun ==
    [name \in {ITEM_TABLE_NAME} |->
        [next_id |-> 2, data |-> [k \in {1} |-> NewItem(1, "item 1")]]]

\* what Db::init finds at the path: no file or an empty one, or the file an
\* earlier run left
PriorFiles == {EmptyFile, JsonFile(Serialize(TablesOfEarlierRun))}

\* the ids below the counters of the tables read from file content f: the
\* ids earlier runs were given
IdsOfEarlierRuns(f) ==
    [name \in TableNames |->
        IF name \in DOMAIN InitTables(f)
        THEN 1..(InitTables(f)[name].next_id - 1)
        ELSE {}]

\* Db::init(String::from("./data.json"))
InitCreate ==
    /\ file \in PriorFiles
    /\ tables = InitTables(file)
    /\ proc = "up"
    /\ last = Call("init", "", 0, "ok", <<>>, FALSE)
    /\ faultBudget = 0
    /\ crashBudget = 0
    /\ issued = NoIds
    /\ issuedBeforeCrash = IdsOfEarlierRuns(file)
    /\ lostIds = NoIds
    /\ HttpIdle

\* db.add_table("item".to_string(), false) by a caller that has the Db to
\* itself
OwnerAddTable ==
    /\ LockFree
    /\ add_table(ITEM_TABLE_NAME, FALSE)
    /\ UNCHANGED httpVars

\* db.delete_all(..) by a caller that has the Db to itself
OwnerDeleteAll ==
    /\ LockFree
    /\ DeleteAll

\* db.delete_by_id(..) by a caller that has the Db to itself
OwnerDeleteById ==
    /\ LockFree
    /\ FaultDeleteById

NextCreate == OwnerAddTable \/ CreateItem \/ OwnerDeleteAll \/ OwnerDeleteById

SpecCreate == InitCreate /\ [][NextCreate]_vars

\* C18: each next_id call returns the counter as it was and raises it by
\* exactly 1, so the k-th call on a table since it was created with nextId 1
\* returns k (the calls of earlier runs that left the table in the file are
\* counted); the n-th create_item therefore stores its item under id n on a
\* table created in this run, also when delete_all was called before it, and
\* under the n-th id above the ids of earlier runs otherwise.
C18_KthNextIdReturnsK ==
    [][/\ \A name \in TableNames :
              ReturnedId(name) =>
                  /\ last'.ret[1] = tables[name].next_id
                  /\ tables'[name].next_id = last'.ret[1] + 1
                  /\ last'.ret[1] = Cardinality(issued[name]
                                                \cup issuedBeforeCrash[name]) + 1
       /\ \A n \in 1..Len(createLog') :
              LET id == n + Cardinality(issuedBeforeCrash[ITEM_TABLE_NAME])
              IN /\ createLog'[n].item.id = id
                 /\ (Len(createLog) < n) =>
                        find_by_id(tables', ITEM_TABLE_NAME, id)
                            = <<createLog'[n].item>>]_vars

\* on a table created in this run two items were created, the second after
\* a delete_all: it is stored under id 2 and the table holds nothing else
C18_Witness ==
    /\ issuedBeforeCrash[ITEM_TABLE_NAME] = {}
    /\ Len(createLog) = 2
    /\ createLog[2].item.id = 2
    /\ DOMAIN tables[ITEM_TABLE_NAME].data = {2}
    /\ tables[ITEM_TABLE_NAME].next_id = 3

(***************************************************************************)
(* put_item (items/route.rs:58-74) and delete_item (items/route.rs:76-88)  *)
(***************************************************************************)
\* the ids of request paths and the names of ItemUpdateBody
PathIds == 1..MaxId
ItemUpdateNames == {"updated"}

PutItemLock(t) ==
    \E id \in PathIds, name \in ItemUpdateNames :
        Lock(t, [kind |-> "put_item", id |-> id, name |-> name], "put_item_61")

\* an update that does not look the item up first
PutItemFind_NoCheck(t) ==
    /\ hpc[t] = "put_item_61"
    /\ hpc' = [hpc EXCEPT ![t] = "put_item_65"]
    /\ UNCHANGED <<lockHolder, poisoned, hreq, hid, resp>>
    /\ UNCHANGED createLog
    /\ UNCHANGED storeVars

PutItemFind(t) ==
    /\ hpc[t] = "put_item_61"
    /\ IF find_by_id(tables, ITEM_TABLE_NAME, hreq[t].id) = <<>>
       THEN Return(t, Response(404, <<>>))
       ELSE /\ hpc' = [hpc EXCEPT ![t] = "put_item_65"]
            /\ UNCHANGED <<lockHolder, poisoned, hreq, hid, resp>>
    /\ UNCHANGED createLog
    /\ UNCHANGED storeVars

PutItemUpdate(t) ==
    /\ hpc[t] = "put_item_65"
    /\ LET to_update == NewItem(hreq[t].id, hreq[t].name)
       IN /\ insert_or_update(ITEM_TABLE_NAME, hreq[t].id, to_update)
          /\ IF last'.status = "ok"
             THEN Return(t, Response(200, <<to_update>>))
             ELSE Panic(t)
    /\ UNCHANGED createLog

DeleteItemLock(t) ==
    \E id \in PathIds :
        Lock(t, [kind |-> "delete_item", id |-> id], "delete_item_79")

DeleteItemDelete(t) ==
    /\ hpc[t] = "delete_item_79"
    /\ delete_by_id(ITEM_TABLE_NAME, hreq[t].id)
    /\ IF last'.status = "ok"
       THEN Return(t, Response(200, <<>>))
       ELSE Panic(t)
    /\ UNCHANGED createLog

(***************************************************************************)
(* The server of main.rs with the handlers that change the store. Every    *)
(* handler holds the guard of the Mutex<Db> from its first line to its     *)
(* return, so the requests are served one at a time: one task serves them  *)
(* one after the other.                                                    *)
(***************************************************************************)
ServingTask == CHOOSE t \in Tasks : \A u \in Tasks : t <= u

ServeCreateItem ==
    \/ CreateItemLock(ServingTask)
    \/ CreateItemNextId(ServingTask)
    \/ CreateItemInsert(ServingTask)

ServePutItem ==
    \/ PutItemLock(ServingTask)
    \/ PutItemFind(ServingTask)
    \/ PutItemUpdate(ServingTask)

ServeDeleteItem ==
    \/ DeleteItemLock(ServingTask)
    \/ DeleteItemDelete(ServingTask)

ServeRegister ==
    \/ RegisterLock(ServingTask)
    \/ RegisterFind(ServingTask)
    \/ RegisterNextId(ServingTask)
    \/ RegisterInsert(ServingTask)

NextItems == ServeCreateItem \/ ServePutItem \/ ServeDeleteItem \/ ServeRegister

SpecItems == InitHttp /\ [][NextItems]_vars

\* every record is stored under a key below its table's nextId and carries
\* that key in its id field
KeysBelowNextId ==
    \A name \in DOMAIN tables :
        \A k \in DOMAIN tables[name].data :
            /\ k < tables[name].next_id
            /\ tables[name].data[k].id = k

\* task t leaves line 61 of put_item with an id under which nothing is stored
PutOfAbsentItem(t) ==
    /\ hpc[t] = "put_item_61"
    /\ hpc'[t] # "put_item_61"
    /\ find_by_id(tables, ITEM_TABLE_NAME, hreq[t].id) = <<>>

\* C20: when only the handlers create_item, put_item, delete_item and
\* register change the store, starting from freshly created tables, every
\* record's key is strictly less than its table's nextId and equals the
\* record's id field; put_item on an id with no stored record answers
\* NotFound and creates no record.
C20_HandlersKeepKeysBelowNextId ==
    /\ []KeysBelowNextId
    /\ [][\A t \in Tasks :
             PutOfAbsentItem(t) =>
                 /\ UNCHANGED storeVars
                 /\ hpc'[t] = "idle"
                 /\ resp'[t] = Response(404, <<>>)]_vars

\* a put_item of an id that was created and deleted again was answered
\* NotFound, while another created item is stored and was updated
C20_Witness ==
    /\ \E t \in Tasks :
           /\ hreq[t].kind = "put_item"
           /\ resp[t] = Response(404, <<>>)
           /\ hreq[t].id < tables[ITEM_TABLE_NAME].next_id
    /\ \E k \in DOMAIN tables[ITEM_TABLE_NAME].data :
           tables[ITEM_TABLE_NAME].data[k].name \in ItemUpdateNames
    /\ DOMAIN tables[USER_TABLE_NAME].data # {}

(***************************************************************************)
(* login (auth/route.rs:12-37) and get_all_items (items/route.rs:15-25)    *)
(***************************************************************************)
\* the passwords of login requests: the registered one and another one
LoginPasswords == Passwords \cup {"wrong"}

\* manager.create_token_data(user.username, user.permissions), encoded
TokenOf(user) == [username |-> user.username, permissions |-> user.permissions]

\* db.lock().or_else(..).expect("Getting db lock"): on a poisoned mutex the
\* handler panics instead of answering 500
LoginLock(t) ==
    /\ proc = "up"
    /\ hpc[t] = "idle"
    /\ LockFree
    /\ \E username \in Usernames, password \in LoginPasswords :
           IF poisoned
           THEN /\ resp' = [resp EXCEPT ![t] = Panicked]
                /\ UNCHANGED <<lockHolder, hpc, hreq>>
           ELSE /\ lockHolder' = t
                /\ hpc' = [hpc EXCEPT ![t] = "login_18"]
                /\ hreq' = [hreq EXCEPT ![t] = [kind |-> "login",
                                                username |-> username,
                                                password |-> password]]
                /\ UNCHANGED resp
    /\ UNCHANGED <<poisoned, hid, createLog>>
    /\ UNCHANGED storeVars

\* find_by_value(..).map(|x| x.first().cloned().unwrap()).ok_or(..).expect(..):
\* unwrap panics on an empty Vec and expect panics on None, both while the
\* guard is held
LoginFind(t) ==
    /\ hpc[t] = "login_18"
    /\ LET users == find_by_value(tables, USER_TABLE_NAME, "username",
                                  hreq[t].username)
       IN IF users = <<>> \/ Len(users[1]) = 0
          THEN Panic(t)
          ELSE /\ hid' = [hid EXCEPT ![t] = users[1][1].id]
               /\ hpc' = [hpc EXCEPT ![t] = "login_24"]
               /\ UNCHANGED <<lockHolder, poisoned, hreq, resp>>
    /\ UNCHANGED createLog
    /\ UNCHANGED storeVars

LoginCheck(t) ==
    /\ hpc[t] = "login_24"
    /\ LET user == tables[USER_TABLE_NAME].data[hid[t]]
       IN IF user.password # hreq[t].password
          THEN Return(t, Response(401, <<>>))
          ELSE Return(t, Response(200, <<TokenOf(user)>>))
    /\ UNCHANGED createLog
    /\ UNCHANGED storeVars

GetAllItemsLock(t) ==
    Lock(t, [kind |-> "get_all_items"], "get_all_items_18")

\* find_all(..).unwrap_or(Vec::new())
GetAllItemsFind(t) ==
    /\ hpc[t] = "get_all_items_18"
    /\ LET items == find_all(tables, ITEM_TABLE_NAME)
       IN Return(t, Response(200, IF items = <<>> THEN << <<>> >> ELSE items))
    /\ UNCHANGED createLog
    /\ UNCHANGED storeVars

Login == \E t \in Tasks : LoginLock(t) \/ LoginFind(t) \/ LoginCheck(t)

GetAllItems == \E t \in Tasks : GetAllItemsLock(t) \/ GetAllItemsFind(t)

(***************************************************************************)
(* The server of main.rs answering register, login and get_all_items       *)
(* requests on freshly created tables; every flush succeeds.               *)
(***************************************************************************)
\* main.rs:45-48 on a new file: both tables were created
InitLogin ==
    /\ tables = [name \in TableNames |-> NewTable]
    /\ file = FlushOk([name \in TableNames |-> NewTable]).file
    /\ proc = "up"
    /\ last = [op |-> "add_table", name |-> USER_TABLE_NAME, id |-> 0,
               existed |-> FALSE, status |-> "ok", ret |-> <<FALSE>>,
               flushed |-> TRUE]
    /\ faultBudget = 0
    /\ crashBudget = 0
    /\ issued = NoIds
    /\ issuedBeforeCrash = NoIds
    /\ lostIds = NoIds
    /\ HttpIdle

NextLogin == Register \/ Login \/ GetAllItems

SpecLogin == InitLogin /\ [][NextLogin]_vars

\* task t ends a login whose username is not stored or whose password is
\* not the stored one
FailedLoginEnds(t) ==
    /\ hreq[t].kind = "login"
    /\ hpc[t] \in {"login_18", "login_24"}
    /\ hpc'[t] = "idle"
    /\ ~\E k \in DOMAIN tables[USER_TABLE_NAME].data :
           /\ tables[USER_TABLE_NAME].data[k].username = hreq[t].username
           /\ tables[USER_TABLE_NAME].data[k].password = hreq[t].password

\* C21: a failed login (unknown username, or known username with a wrong
\* password) is answered Unauthorized, releases the guard without poisoning
\* the mutex and leaves the store unchanged, so that no later handler finds
\* the mutex poisoned: none panics at lock() and none answers 500.
C21_FailedLoginIsUnauthorized ==
    /\ [][\A t \in Tasks :
             FailedLoginEnds(t) =>
                 /\ resp'[t] = Response(401, <<>>)
                 /\ lockHolder' = 0
                 /\ ~poisoned'
                 /\ UNCHANGED storeVars]_vars
    /\ [](\A t \in Tasks : resp[t] # Panicked /\ resp[t] # Response(500, <<>>))

====
